---- MODULE Spec2Model ----
(***************************************************************************)
(* Model of PublicMusicRoomServer (src/server.js): the in-memory room      *)
(* coordinator behind the socket.io handlers of setupSocketHandlers.       *)
(*                                                                         *)
(* Every action is one whole handler invocation.  Node runs a handler to   *)
(* completion before the next event is dispatched, so handlers are atomic. *)
(* Display-only payload (name, description, displayName, ip, createdAt,    *)
(* chat text, playback position) is left out; it is never read by a guard. *)
(***************************************************************************)
EXTENDS Integers, Sequences, FiniteSets, TLC

\* ---------------------------------------------------------------- bounds
NumSockets == 3     \* connections accepted during one run
NumCodes == 2       \* size of the room-code space (36^6 in the program)
NumTracks == 2      \* distinct track ids clients may send
MaxSongs == 2       \* longest song / songId list in one request

Sockets == 1..NumSockets
Codes == 1..NumCodes
TrackIds == 1..NumTracks

\* connections accepted in the runs that send settings and playback events
FewSockets == 2

\* track ids in the runs that check the order of the tracks a remove keeps
NumTracksWide == 3

\* roomCode recorded for a disconnect of a connection without userSockets entry
NoCode == 0

SeqsUpTo(S, n) == UNION {[1..k -> S] : k \in 0..n}

\* a song as the handlers read it: only _id is ever inspected
Track == [_id : TrackIds]
SongLists == SeqsUpTo(Track, MaxSongs)
SongIdLists == SeqsUpTo(TrackIds, MaxSongs)

WideTrackIds == 1..NumTracksWide
WideSongLists == SeqsUpTo([_id : WideTrackIds], MaxSongs)
WideSongIdLists == SeqsUpTo(WideTrackIds, MaxSongs)

PlaybackModes == {"individual", "sync"}
SyncControls == {"host-only", "anyone"}
SettingsKeys == {"playbackMode", "syncControl"}

\* settings patches: any subset of the two keys, each with a legal value
SettingsPatches ==
    {p \in UNION {[D -> PlaybackModes \cup SyncControls] : D \in SUBSET SettingsKeys} :
        /\ ("playbackMode" \in DOMAIN p => p["playbackMode"] \in PlaybackModes)
        /\ ("syncControl" \in DOMAIN p => p["syncControl"] \in SyncControls)}

VARIABLES
    rooms,        \* this.rooms: roomCode -> room
    userSockets,  \* this.userSockets: socket.id -> {roomCode, isHost}
    roomCodes,    \* this.roomCodes
    connected,    \* sockets whose handlers are registered and not yet disconnected
    nextSocket,   \* next fresh socket.id
    joined,       \* socket.io adapter: socket.id -> set of io rooms it has joined
    last,         \* the inbound event handled by the latest step
    out           \* the deliveries <<event, recipient>> made by the latest step

vars == <<rooms, userSockets, roomCodes, connected, nextSocket, joined, last, out>>

\* ------------------------------------------------------------- emit helpers
\* this.io.to(code).emit(ev): every socket currently in io room `code`
IoToEmit(j, code, ev) == {<<ev, t>> : t \in {x \in Sockets : code \in j[x]}}

\* socket.emit(ev): the sender only
\* an emit that reaches every open connection instead of the socket itself
SocketEmitToEveryone(s, ev) == {<<ev, t>> : t \in connected}

SocketEmit(s, ev) == {<<ev, s>>}

\* socket.to(code).emit(ev): io room `code` except the sender
SocketToEmit(j, s, code, ev) == {<<ev, t>> : t \in {x \in Sockets \ {s} : code \in j[x]}}

Event(op, s, code, songs, songIds) ==
    [op |-> op, sender |-> s, roomCode |-> code, songs |-> songs, songIds |-> songIds]

\* Map.set / Map.delete
MapSet(m, k, v) == [x \in DOMAIN m \cup {k} |-> IF x = k THEN v ELSE m[x]]
MapDelete(m, k) == [x \in DOMAIN m \ {k} |-> m[x]]

\* ------------------------------------------------------------------- Init
Init ==
    /\ rooms = << >>
    /\ userSockets = << >>
    /\ roomCodes = {}
    /\ connected = {}
    /\ nextSocket = 1
    /\ joined = [s \in Sockets |-> {}]
    /\ last = Event("init", 0, NoCode, << >>, << >>)
    /\ out = {}

\* io.on('connection'): a new socket with a fresh id gets its handlers
Connection ==
    /\ nextSocket <= NumSockets
    /\ connected' = connected \cup {nextSocket}
    /\ nextSocket' = nextSocket + 1
    /\ last' = Event("connection", nextSocket, NoCode, << >>, << >>)
    /\ out' = {}
    /\ UNCHANGED <<rooms, userSockets, roomCodes, joined>>

\* ------------------------------------------------------- pure functions
\* generateRoomCode without the roomCodes.has(code) retry
GenerateRoomCodeNoRetry(codes) == Codes

\* generateRoomCode: the codes the do/while loop can return, i.e. any code
\* for which this.roomCodes.has(code) is false
GenerateRoomCode(codes) == Codes \ codes

\* push(...songs) without the filter
AddSongsNoFilter(playlist, songs) == playlist \o songs

\* songs.filter(song => !room.playlist.some(e => e._id === song._id)),
\* then room.playlist.push(...newSongs)
AddSongs(playlist, songs) ==
    playlist \o SelectSeq(songs,
        LAMBDA song : ~(\E i \in DOMAIN playlist : playlist[i]._id = song._id))

\* a filter that tests only the first requested id
RemoveSongsFirstIdOnly(playlist, songIds) ==
    SelectSeq(playlist,
        LAMBDA song : songIds = << >> \/ songIds[1] # song._id)

\* room.playlist.filter(song => !songIds.includes(song._id))
RemoveSongs(playlist, songIds) ==
    SelectSeq(playlist,
        LAMBDA song : ~(\E i \in DOMAIN songIds : songIds[i] = song._id))

\* { ...room.settings, ...settings }
MergeSettings(settings, patch) ==
    [playbackMode |-> IF "playbackMode" \in DOMAIN patch
                      THEN patch["playbackMode"] ELSE settings.playbackMode,
     syncControl |-> IF "syncControl" \in DOMAIN patch
                     THEN patch["syncControl"] ELSE settings.syncControl]

\* the isHost flag the handlers consult: the one stored in userSockets
UserIsHost(s) == userSockets[s].isHost

\* --------------------------------------------------------------- handlers
\* a join-room that records the session before it looks the room up
JoinRoomBindsFirst(s, c) ==
    /\ s \in connected
    /\ last' = Event("join-room", s, c, << >>, << >>)
    /\ userSockets' = MapSet(userSockets, s, [roomCode |-> c, isHost |-> FALSE])
    /\ IF c \notin DOMAIN rooms
       THEN /\ out' = SocketEmit(s, "join-error")
            /\ UNCHANGED <<rooms, roomCodes, joined>>
       ELSE LET parts == MapSet(rooms[c].participants, s, [isHost |-> FALSE]) IN
            /\ rooms' = [rooms EXCEPT ![c].participants = parts,
                                      ![c].participantCount = Cardinality(DOMAIN parts)]
            /\ joined' = [joined EXCEPT ![s] = @ \cup {c}]
            /\ out' = IoToEmit(joined', c, "participant-joined")
                        \cup SocketEmit(s, "room-joined")
            /\ UNCHANGED roomCodes
    /\ UNCHANGED <<connected, nextSocket>>

\* socket.on('join-room')
JoinRoom(s, c) ==
    /\ s \in connected
    /\ last' = Event("join-room", s, c, << >>, << >>)
    /\ IF c \notin DOMAIN rooms
       THEN /\ out' = SocketEmit(s, "join-error")
            /\ UNCHANGED <<rooms, userSockets, roomCodes, joined>>
       ELSE LET parts == MapSet(rooms[c].participants, s, [isHost |-> FALSE]) IN
            /\ rooms' = [rooms EXCEPT ![c].participants = parts,
                                      ![c].participantCount = Cardinality(DOMAIN parts)]
            /\ userSockets' = MapSet(userSockets, s, [roomCode |-> c, isHost |-> FALSE])
            /\ joined' = [joined EXCEPT ![s] = @ \cup {c}]
            /\ out' = IoToEmit(joined', c, "participant-joined")
                        \cup SocketEmit(s, "room-joined")
            /\ UNCHANGED roomCodes
    /\ UNCHANGED <<connected, nextSocket>>

\* socket.on('create-room'); an absent initialPlaylist is the empty list
CreateRoom(s, initialPlaylist) ==
    /\ s \in connected
    /\ \E code \in GenerateRoomCode(roomCodes) :
        LET room == [code |-> code,
                     playlist |-> initialPlaylist,
                     settings |-> [playbackMode |-> "individual",
                                   syncControl |-> "host-only"],
                     participants |-> MapSet(<< >>, s, [isHost |-> TRUE]),
                     participantCount |-> 1,
                     hostId |-> s]
        IN  /\ roomCodes' = roomCodes \cup {code}
            /\ userSockets' = MapSet(userSockets, s, [roomCode |-> code, isHost |-> TRUE])
            /\ rooms' = MapSet(rooms, code, room)
            /\ joined' = [joined EXCEPT ![s] = @ \cup {code}]
            /\ last' = Event("create-room", s, code, initialPlaylist, << >>)
            /\ out' = SocketEmit(s, "room-created")
    /\ UNCHANGED <<connected, nextSocket>>

\* an update-room-settings that merges the request into every live room
UpdateRoomSettingsEveryRoom(s, c, patch) ==
    /\ s \in connected
    /\ last' = Event("update-room-settings", s, c, << >>, << >>)
    /\ IF c \notin DOMAIN rooms \/ s \notin DOMAIN userSockets \/ ~UserIsHost(s)
       THEN /\ out' = SocketEmit(s, "error")
            /\ UNCHANGED rooms
       ELSE /\ rooms' = [d \in DOMAIN rooms |->
                            [rooms[d] EXCEPT !.settings = MergeSettings(@, patch)]]
            /\ out' = IoToEmit(joined, c, "room-settings-updated")
    /\ UNCHANGED <<userSockets, roomCodes, connected, nextSocket, joined>>

\* socket.on('update-room-settings')
UpdateRoomSettings(s, c, patch) ==
    /\ s \in connected
    /\ last' = Event("update-room-settings", s, c, << >>, << >>)
    /\ IF c \notin DOMAIN rooms \/ s \notin DOMAIN userSockets \/ ~UserIsHost(s)
       THEN /\ out' = SocketEmit(s, "error")
            /\ UNCHANGED rooms
       ELSE /\ rooms' = [rooms EXCEPT ![c].settings = MergeSettings(@, patch)]
            /\ out' = IoToEmit(joined, c, "room-settings-updated")
    /\ UNCHANGED <<userSockets, roomCodes, connected, nextSocket, joined>>

\* socket.on('add-to-room-playlist')
AddToRoomPlaylist(s, c, songs) ==
    /\ s \in connected
    /\ last' = Event("add-to-room-playlist", s, c, songs, << >>)
    /\ IF c \notin DOMAIN rooms \/ s \notin DOMAIN userSockets
       THEN /\ out' = SocketEmit(s, "error")
            /\ UNCHANGED rooms
       ELSE /\ rooms' = [rooms EXCEPT ![c].playlist = AddSongs(@, songs)]
            /\ out' = IoToEmit(joined, c, "room-playlist-updated")
    /\ UNCHANGED <<userSockets, roomCodes, connected, nextSocket, joined>>

\* socket.on('remove-from-room-playlist')
RemoveFromRoomPlaylist(s, c, songIds) ==
    /\ s \in connected
    /\ last' = Event("remove-from-room-playlist", s, c, << >>, songIds)
    /\ IF c \notin DOMAIN rooms \/ s \notin DOMAIN userSockets
       THEN /\ out' = SocketEmit(s, "error")
            /\ UNCHANGED rooms
       ELSE /\ rooms' = [rooms EXCEPT ![c].playlist = RemoveSongs(@, songIds)]
            /\ out' = IoToEmit(joined, c, "room-playlist-updated")
    /\ UNCHANGED <<userSockets, roomCodes, connected, nextSocket, joined>>

\* a sync-playback that never looks at settings.playbackMode
SyncPlaybackIgnoresMode(s, c) ==
    /\ s \in connected
    /\ last' = Event("sync-playback", s, c, << >>, << >>)
    /\ IF c \notin DOMAIN rooms \/ s \notin DOMAIN userSockets
       THEN out' = SocketEmit(s, "error")
       ELSE IF rooms[c].settings.syncControl = "host-only" /\ ~UserIsHost(s)
            THEN out' = SocketEmit(s, "error")
            ELSE out' = SocketToEmit(joined, s, c, "sync-playback-command")
    /\ UNCHANGED <<rooms, userSockets, roomCodes, connected, nextSocket, joined>>

\* socket.on('sync-playback')
SyncPlayback(s, c) ==
    /\ s \in connected
    /\ last' = Event("sync-playback", s, c, << >>, << >>)
    /\ IF c \notin DOMAIN rooms \/ s \notin DOMAIN userSockets
       THEN out' = SocketEmit(s, "error")
       ELSE IF rooms[c].settings.playbackMode = "sync"
            THEN IF rooms[c].settings.syncControl = "host-only" /\ ~UserIsHost(s)
                 THEN out' = SocketEmit(s, "error")
                 ELSE out' = SocketToEmit(joined, s, c, "sync-playback-command")
            ELSE out' = {}
    /\ UNCHANGED <<rooms, userSockets, roomCodes, connected, nextSocket, joined>>

\* socket.on('chat-message')
ChatMessage(s, c) ==
    /\ s \in connected
    /\ last' = Event("chat-message", s, c, << >>, << >>)
    /\ IF c \notin DOMAIN rooms \/ s \notin DOMAIN userSockets
       THEN out' = SocketEmit(s, "error")
       ELSE out' = IoToEmit(joined, c, "chat-message")
    /\ UNCHANGED <<rooms, userSockets, roomCodes, connected, nextSocket, joined>>

\* socket.on('disconnect') with the session entry left in userSockets
OnDisconnectKeepsSession(s) ==
    IF s \notin DOMAIN userSockets
    THEN /\ last' = Event("disconnect", s, NoCode, << >>, << >>)
         /\ out' = {}
         /\ UNCHANGED <<rooms, userSockets, roomCodes>>
    ELSE LET user == userSockets[s]
             c == user.roomCode
         IN  /\ last' = Event("disconnect", s, c, << >>, << >>)
             /\ UNCHANGED userSockets
             /\ IF c \notin DOMAIN rooms
                THEN /\ out' = {}
                     /\ UNCHANGED <<rooms, roomCodes>>
                ELSE IF user.isHost
                     THEN /\ out' = IoToEmit(joined', c, "room-closed")
                          /\ rooms' = MapDelete(rooms, c)
                          /\ roomCodes' = roomCodes \ {c}
                     ELSE LET parts == MapDelete(rooms[c].participants, s) IN
                          /\ rooms' = [rooms EXCEPT
                                 ![c].participants = parts,
                                 ![c].participantCount = Cardinality(DOMAIN parts)]
                          /\ out' = IoToEmit(joined', c, "participant-left")
                          /\ UNCHANGED roomCodes

\* the body of socket.on('disconnect'); its broadcasts go to the io rooms as
\* they are once the transport has dealt with the socket (joined')
OnDisconnect(s) ==
    IF s \notin DOMAIN userSockets
    THEN /\ last' = Event("disconnect", s, NoCode, << >>, << >>)
         /\ out' = {}
         /\ UNCHANGED <<rooms, userSockets, roomCodes>>
    ELSE LET user == userSockets[s]
             c == user.roomCode
         IN  /\ last' = Event("disconnect", s, c, << >>, << >>)
             /\ userSockets' = MapDelete(userSockets, s)
             /\ IF c \notin DOMAIN rooms
                THEN /\ out' = {}
                     /\ UNCHANGED <<rooms, roomCodes>>
                ELSE IF user.isHost
                     THEN /\ out' = IoToEmit(joined', c, "room-closed")
                          /\ rooms' = MapDelete(rooms, c)
                          /\ roomCodes' = roomCodes \ {c}
                     ELSE LET parts == MapDelete(rooms[c].participants, s) IN
                          /\ rooms' = [rooms EXCEPT
                                 ![c].participants = parts,
                                 ![c].participantCount = Cardinality(DOMAIN parts)]
                          /\ out' = IoToEmit(joined', c, "participant-left")
                          /\ UNCHANGED roomCodes

\* socket.on('disconnect').  socket.io takes the socket out of every io room
\* before it fires 'disconnect', so the handler's broadcasts skip the sender.
Disconnect(s) ==
    /\ s \in connected
    /\ connected' = connected \ {s}
    /\ joined' = [joined EXCEPT ![s] = {}]
    /\ OnDisconnect(s)
    /\ UNCHANGED nextSocket

\* the transport reports the disconnect of an already closed socket again:
\* the same handler runs once more
DisconnectAgain(s) ==
    /\ s \in (1..(nextSocket - 1)) \ connected
    /\ UNCHANGED <<connected, joined, nextSocket>>
    /\ OnDisconnect(s)

Next ==
    \/ Connection
    \/ \E s \in Sockets, c \in Codes : JoinRoom(s, c)
    \/ \E s \in Sockets, pl \in SongLists : CreateRoom(s, pl)
    \/ \E s \in Sockets, c \in Codes, p \in SettingsPatches : UpdateRoomSettings(s, c, p)
    \/ \E s \in Sockets, c \in Codes, songs \in SongLists : AddToRoomPlaylist(s, c, songs)
    \/ \E s \in Sockets, c \in Codes, ids \in SongIdLists : RemoveFromRoomPlaylist(s, c, ids)
    \/ \E s \in Sockets, c \in Codes : SyncPlayback(s, c)
    \/ \E s \in Sockets, c \in Codes : ChatMessage(s, c)
    \/ \E s \in Sockets : Disconnect(s)

Spec == Init /\ [][Next]_vars

\* Clients that only create, join and leave rooms (no initial playlist)
NextLifecycle ==
    \/ Connection
    \/ \E s \in Sockets, c \in Codes : JoinRoom(s, c)
    \/ \E s \in Sockets : CreateRoom(s, << >>)
    \/ \E s \in Sockets : Disconnect(s)

SpecLifecycle == Init /\ [][NextLifecycle]_vars

\* The lifecycle clients, with disconnects that may be reported repeatedly
NextRedelivery ==
    \/ NextLifecycle
    \/ \E s \in Sockets : DisconnectAgain(s)

SpecRedelivery == Init /\ [][NextRedelivery]_vars

\* FewSockets connections that also change settings and issue playback commands
NextAuthority ==
    \/ (nextSocket <= FewSockets /\ Connection)
    \/ \E s \in Sockets, c \in Codes : JoinRoom(s, c)
    \/ \E s \in Sockets : CreateRoom(s, << >>)
    \/ \E s \in Sockets, c \in Codes, p \in SettingsPatches : UpdateRoomSettings(s, c, p)
    \/ \E s \in Sockets, c \in Codes : SyncPlayback(s, c)
    \/ \E s \in Sockets : Disconnect(s)

SpecAuthority == Init /\ [][NextAuthority]_vars

\* Clients that curate playlists; create-room is sent only while no room is
\* live, so one room at a time exists and its code may be issued again later
NextPlaylist ==
    \/ Connection
    \/ \E s \in Sockets, c \in Codes : JoinRoom(s, c)
    \/ \E s \in Sockets, pl \in SongLists : (rooms = << >> /\ CreateRoom(s, pl))
    \/ \E s \in Sockets, c \in Codes, songs \in SongLists : AddToRoomPlaylist(s, c, songs)
    \/ \E s \in Sockets, c \in Codes, ids \in SongIdLists : RemoveFromRoomPlaylist(s, c, ids)
    \/ \E s \in Sockets : Disconnect(s)

SpecPlaylist == Init /\ [][NextPlaylist]_vars

\* FewSockets connections that stay connected and curate one room over the
\* wider track-id space
NextCuration ==
    \/ (nextSocket <= FewSockets /\ Connection)
    \/ \E s \in Sockets, c \in Codes : JoinRoom(s, c)
    \/ \E s \in Sockets, pl \in WideSongLists : (rooms = << >> /\ CreateRoom(s, pl))
    \/ \E s \in Sockets, c \in Codes, songs \in WideSongLists :
          AddToRoomPlaylist(s, c, songs)
    \/ \E s \in Sockets, c \in Codes, ids \in WideSongIdLists :
          RemoveFromRoomPlaylist(s, c, ids)

SpecCuration == Init /\ [][NextCuration]_vars

\* FewSockets connections sending every kind of event; playlist requests
\* carry at most one entry over the track ids 1..NumTracksFew, and settings
\* requests change playbackMode only
NumTracksFew == 1

FewTrackIds == 1..NumTracksFew

FewSongLists ==
    {songs \in SongLists :
        Len(songs) <= 1 /\ \A i \in DOMAIN songs : songs[i]._id \in FewTrackIds}

FewSongIdLists ==
    {ids \in SongIdLists :
        Len(ids) <= 1 /\ \A i \in DOMAIN ids : ids[i] \in FewTrackIds}

ModePatches == {patch \in SettingsPatches : DOMAIN patch \subseteq {"playbackMode"}}

NextEvents ==
    \/ (nextSocket <= FewSockets /\ Connection)
    \/ \E s \in Sockets, c \in Codes : JoinRoom(s, c)
    \/ \E s \in Sockets : CreateRoom(s, << >>)
    \/ \E s \in Sockets, c \in Codes, patch \in ModePatches :
          UpdateRoomSettings(s, c, patch)
    \/ \E s \in Sockets, c \in Codes, songs \in FewSongLists :
          AddToRoomPlaylist(s, c, songs)
    \/ \E s \in Sockets, c \in Codes, ids \in FewSongIdLists :
          RemoveFromRoomPlaylist(s, c, ids)
    \/ \E s \in Sockets, c \in Codes : SyncPlayback(s, c)
    \/ \E s \in Sockets, c \in Codes : ChatMessage(s, c)
    \/ \E s \in Sockets : Disconnect(s)

SpecEvents == Init /\ [][NextEvents]_vars

\* ------------------------------------------------------------ vocabulary
\* the latest event was not answered with an error
Accepted(o, s) == <<"error", s>> \notin o /\ <<"join-error", s>> \notin o

Sent(o, ev) == {d \in o : d[1] = ev}

HasId(playlist, id) == \E i \in DOMAIN playlist : playlist[i]._id = id

\* ------------------------------------------------------------------- C1
\* C1: once the disconnect of the connection whose id is R.hostId has been
\* processed, R is absent from rooms, R's code is absent from roomCodes, and
\* every other participant of R at that moment has been sent room-closed.
C1_HostDisconnectDestroysRoom ==
    [][\A s \in connected, c \in DOMAIN rooms :
          (s \notin connected' /\ rooms[c].hostId = s)
          => /\ c \notin DOMAIN rooms'
             /\ c \notin roomCodes'
             /\ \A p \in DOMAIN rooms[c].participants \ {s} :
                    <<"room-closed", p>> \in out']_vars

\* ------------------------------------------------------------------- C2
\* C2: in every reachable state every live room's hostId is a key of that
\* room's participants map.
C2_HostIsParticipant ==
    \A c \in DOMAIN rooms : rooms[c].hostId \in DOMAIN rooms[c].participants

\* ------------------------------------------------------------------- C3
\* C3: update-room-settings naming room R from a sender whose id is not
\* R.hostId yields an error to the sender, broadcasts no
\* room-settings-updated and leaves R.settings unchanged.
C3_OnlyHostUpdatesSettings ==
    [][\A c \in DOMAIN rooms :
          (/\ last'.op = "update-room-settings"
           /\ last'.roomCode = c
           /\ last'.sender # rooms[c].hostId)
          => /\ <<"error", last'.sender>> \in out'
             /\ Sent(out', "room-settings-updated") = {}
             /\ c \in DOMAIN rooms'
             /\ rooms'[c].settings = rooms[c].settings]_vars

\* ------------------------------------------------------------------- C4
\* C4: while R has playbackMode=sync and syncControl=host-only, a
\* sync-playback naming R from a sender other than R.hostId yields an error
\* and no sync-playback-command; from R's host it yields a
\* sync-playback-command to every participant of R except the host.
C4_HostOnlySync ==
    [][\A c \in DOMAIN rooms :
          (/\ last'.op = "sync-playback"
           /\ last'.roomCode = c
           /\ rooms[c].settings.playbackMode = "sync"
           /\ rooms[c].settings.syncControl = "host-only")
          => IF last'.sender # rooms[c].hostId
             THEN /\ <<"error", last'.sender>> \in out'
                  /\ Sent(out', "sync-playback-command") = {}
             ELSE \A p \in DOMAIN rooms[c].participants \ {rooms[c].hostId} :
                      <<"sync-playback-command", p>> \in out']_vars

\* ------------------------------------------------------------------- C5
\* C5: an add-to-room-playlist or remove-from-room-playlist naming R from a
\* sender that is not a key of R.participants yields an error to the sender
\* and leaves R.playlist unchanged.
C5_OnlyMembersEditPlaylist ==
    [][\A c \in DOMAIN rooms :
          (/\ last'.op \in {"add-to-room-playlist", "remove-from-room-playlist"}
           /\ last'.roomCode = c
           /\ last'.sender \notin DOMAIN rooms[c].participants)
          => /\ <<"error", last'.sender>> \in out'
             /\ c \in DOMAIN rooms'
             /\ rooms'[c].playlist = rooms[c].playlist]_vars

\* ------------------------------------------------------------------- C6
\* C6: in every reachable state no connection id is a key of the
\* participants map of two different live rooms.
C6_OneRoomPerParticipant ==
    \A c1 \in DOMAIN rooms, c2 \in DOMAIN rooms :
        c1 # c2 =>
            DOMAIN rooms[c1].participants \cap DOMAIN rooms[c2].participants = {}

\* ------------------------------------------------------------------- C7
\* C7: a connection's userSockets entry appears only on its own successful
\* create-room or join-room, disappears only on its own disconnect, and
\* while it exists its roomCode never changes.
C7_SessionNeverRebound ==
    [][\A s \in Sockets :
          /\ (s \in DOMAIN userSockets /\ s \in DOMAIN userSockets')
             => userSockets'[s].roomCode = userSockets[s].roomCode
          /\ (s \in DOMAIN userSockets /\ s \notin DOMAIN userSockets')
             => (last'.op = "disconnect" /\ last'.sender = s)
          /\ (s \notin DOMAIN userSockets /\ s \in DOMAIN userSockets')
             => /\ last'.op \in {"create-room", "join-room"}
                /\ last'.sender = s
                /\ Accepted(out', s)]_vars

\* ------------------------------------------------------------------- C8
\* C8: create-room never issues the code of a live room, so it leaves every
\* live room as it was and no two live rooms share a code; the issued codes
\* are exactly the codes of the live rooms, so a code is issuable again only
\* once its room has been destroyed.
C8_CodesUniqueAmongLiveRooms ==
    /\ [](/\ roomCodes = DOMAIN rooms
          /\ \A c \in DOMAIN rooms : rooms[c].code = c)
    /\ [][last'.op = "create-room"
          => /\ last'.roomCode \notin DOMAIN rooms
             /\ \A c \in DOMAIN rooms :
                    c \in DOMAIN rooms' /\ rooms'[c] = rooms[c]]_vars

\* a freed code has been issued again, next to another live room: some other
\* connection still holds a session for the code from the destroyed room
C8_Witness ==
    /\ last.op = "create-room"
    /\ Cardinality(DOMAIN rooms) >= 2
    /\ \E s \in DOMAIN userSockets :
          /\ s # last.sender
          /\ userSockets[s].roomCode = last.roomCode
          /\ s \notin DOMAIN rooms[last.roomCode].participants

\* ------------------------------------------------------------------- C9
\* C9: in every reachable state every live room's playlist holds no two
\* tracks with the same id.
C9_PlaylistIdsUnique ==
    \A c \in DOMAIN rooms :
        \A i \in DOMAIN rooms[c].playlist, j \in DOMAIN rooms[c].playlist :
            rooms[c].playlist[i]._id = rooms[c].playlist[j]._id => i = j

\* ------------------------------------------------------------------ C10
\* C10: add-to-room-playlist is idempotent: after an accepted add of list L,
\* adding L again would leave the playlist as it is; an accepted add that
\* repeats the list of the previous accepted add on the same room changes
\* nothing; and an accepted add of tracks whose ids are all present leaves
\* the playlist (hence its length) unchanged.
C10_AddIdempotent ==
    /\ []((last.op = "add-to-room-playlist" /\ Accepted(out, last.sender))
          => AddSongs(rooms[last.roomCode].playlist, last.songs)
                = rooms[last.roomCode].playlist)
    /\ [][(last'.op = "add-to-room-playlist" /\ Accepted(out', last'.sender))
          => LET c == last'.roomCode IN
             /\ (/\ last.op = "add-to-room-playlist"
                 /\ Accepted(out, last.sender)
                 /\ last.roomCode = c
                 /\ last.songs = last'.songs)
                => rooms'[c].playlist = rooms[c].playlist
             /\ (\A i \in DOMAIN last'.songs :
                    HasId(rooms[c].playlist, last'.songs[i]._id))
                => rooms'[c].playlist = rooms[c].playlist]_vars

\* an accepted add dropped at least one submitted track as already present
C10_Witness ==
    /\ last.op = "add-to-room-playlist"
    /\ Accepted(out, last.sender)
    /\ Len(rooms[last.roomCode].playlist) > 0
    /\ Len(rooms[last.roomCode].playlist) < Len(last.songs)

\* ------------------------------------------------------------------ C11
\* C11: remove-from-room-playlist is idempotent and order-preserving: an
\* accepted remove deletes exactly the tracks whose id is requested and keeps
\* every other track in its relative order; none of the requested ids is left,
\* so repeating the removal (or removing absent ids) changes nothing.
C11_RemoveIdempotentOrderPreserving ==
    /\ []((last.op = "remove-from-room-playlist" /\ Accepted(out, last.sender))
          => \A i \in DOMAIN rooms[last.roomCode].playlist :
                \A k \in DOMAIN last.songIds :
                    rooms[last.roomCode].playlist[i]._id # last.songIds[k])
    /\ [][(last'.op = "remove-from-room-playlist" /\ Accepted(out', last'.sender))
          => LET c == last'.roomCode
                 old == rooms[c].playlist
                 new == rooms'[c].playlist
                 ids == {last'.songIds[k] : k \in DOMAIN last'.songIds}
                 Kept == {i \in DOMAIN old : old[i]._id \notin ids}
             IN  /\ Len(new) = Cardinality(Kept)
                 /\ \A i \in Kept : new[Cardinality({j \in Kept : j <= i})] = old[i]
                 /\ (\A i \in DOMAIN old : old[i]._id \notin ids) => new = old
                 /\ (/\ last.op = "remove-from-room-playlist"
                     /\ Accepted(out, last.sender)
                     /\ last.roomCode = c
                     /\ last.songIds = last'.songIds)
                    => new = old]_vars

\* an accepted remove of some id left two tracks with different ids behind,
\* the larger id first
C11_Witness ==
    /\ last.op = "remove-from-room-playlist"
    /\ Accepted(out, last.sender)
    /\ Len(last.songIds) >= 1
    /\ Len(rooms[last.roomCode].playlist) = 2
    /\ rooms[last.roomCode].playlist[1]._id > rooms[last.roomCode].playlist[2]._id

\* ------------------------------------------------------------------ C12
\* C12: a join-room naming code c either finds the room and completes (the
\* joiner is a participant, its session names c, it is in io room c and is
\* sent room-joined) or is rejected with join-error and changes nothing; a
\* connection without a session is in no participants map; and whenever a
\* room is destroyed, every connected connection whose session names its code
\* is sent room-closed in that very step.
C12_JoinIsAllOrNothing ==
    /\ [](\A s \in connected \ DOMAIN userSockets :
             \A c \in DOMAIN rooms : s \notin DOMAIN rooms[c].participants)
    /\ [][/\ last'.op = "join-room"
             => LET s == last'.sender
                    c == last'.roomCode
                IN  IF c \in DOMAIN rooms
                    THEN /\ c \in DOMAIN rooms'
                         /\ s \in DOMAIN rooms'[c].participants
                         /\ s \in DOMAIN userSockets'
                         /\ userSockets'[s].roomCode = c
                         /\ c \in joined'[s]
                         /\ <<"room-joined", s>> \in out'
                    ELSE /\ out' = {<<"join-error", s>>}
                         /\ UNCHANGED <<rooms, roomCodes, userSockets, joined>>
          /\ \A c \in DOMAIN rooms \ DOMAIN rooms' :
                \A s \in connected' \cap DOMAIN userSockets :
                    userSockets[s].roomCode = c => <<"room-closed", s>> \in out']_vars

\* the host's disconnect has destroyed a room and a joiner whose session
\* names it was sent room-closed
C12_Witness ==
    /\ last.op = "disconnect"
    /\ last.roomCode \notin DOMAIN rooms
    /\ \E s \in connected \cap DOMAIN userSockets :
          /\ userSockets[s] = [roomCode |-> last.roomCode, isHost |-> FALSE]
          /\ <<"room-closed", s>> \in out

\* ------------------------------------------------------------------ C13
\* C13: a disconnect for a connection without a session (it never created or
\* joined a room), and every disconnect delivered again for a connection
\* already disconnected, leaves rooms, roomCodes and userSockets unchanged
\* and emits nothing; a disconnected connection never keeps a session.
C13_DisconnectIdempotent ==
    /\ [](DOMAIN userSockets \subseteq connected)
    /\ [][(/\ last'.op = "disconnect"
           /\ (last'.sender \notin connected \/ last'.sender \notin DOMAIN userSockets))
          => /\ UNCHANGED <<rooms, roomCodes, userSockets>>
             /\ out' = {}]_vars

\* a disconnect was delivered again for the host whose first disconnect had
\* destroyed its room: only two connections ever existed, the other one still
\* holds its member session for the destroyed room, and this delivery found
\* no session for the sender
C13_Witness ==
    /\ last.op = "disconnect"
    /\ last.roomCode = NoCode
    /\ last.sender \notin connected
    /\ nextSocket = 3
    /\ rooms = << >>
    /\ \E t \in connected \ {last.sender} :
          /\ t \in DOMAIN userSockets
          /\ userSockets[t].isHost = FALSE

\* ------------------------------------------------------------------ C14
\* C14: while room R has settings.playbackMode = individual, no sync-playback
\* naming R, from any sender and with any syncControl, delivers a
\* sync-playback-command to anyone.
C14_IndividualModeNeverBroadcasts ==
    [][\A c \in DOMAIN rooms :
          (/\ last'.op = "sync-playback"
           /\ last'.roomCode = c
           /\ rooms[c].settings.playbackMode = "individual")
          => Sent(out', "sync-playback-command") = {}]_vars

\* the host of a room in individual mode with syncControl = anyone sent
\* sync-playback while another connection was in the io room: nothing went out
C14_Witness ==
    /\ last.op = "sync-playback"
    /\ last.roomCode \in DOMAIN rooms
    /\ rooms[last.roomCode].settings
          = [playbackMode |-> "individual", syncControl |-> "anyone"]
    /\ rooms[last.roomCode].hostId = last.sender
    /\ last.sender \in DOMAIN userSockets
    /\ userSockets[last.sender] = [roomCode |-> last.roomCode, isHost |-> TRUE]
    /\ \E t \in connected \ {last.sender} : last.roomCode \in joined[t]
    /\ out = {}

\* ------------------------------------------------------------------ C15
\* C15: every accepted chat-message naming room R is delivered to every
\* current participant of R, and the recipients always include the sender.
C15_ChatReachesEveryParticipant ==
    [][(/\ last'.op = "chat-message"
        /\ last'.roomCode \in DOMAIN rooms
        /\ Accepted(out', last'.sender))
       => \A p \in DOMAIN rooms[last'.roomCode].participants \cup {last'.sender} :
             <<"chat-message", p>> \in out']_vars

\* ------------------------------------------------------------------ C16
\* C16: whenever a handler rejects an event (join-error for join-room, error
\* for the other handlers), the error goes to the originating connection only,
\* nothing else is emitted, and rooms, roomCodes and userSockets are unchanged.
C16_RejectionOnlyAnswersSender ==
    [][(Sent(out', "error") \cup Sent(out', "join-error") # {})
       => /\ out' = {<<IF last'.op = "join-room" THEN "join-error" ELSE "error",
                       last'.sender>>}
          /\ last'.op \in {"join-room", "update-room-settings",
                           "add-to-room-playlist", "remove-from-room-playlist",
                           "sync-playback", "chat-message"}
          /\ UNCHANGED <<rooms, roomCodes, userSockets>>]_vars

\* a participant that is not the host asked for a settings change while the
\* host was in the io room, and was the only one answered
C16_Witness ==
    /\ last.op = "update-room-settings"
    /\ last.roomCode \in DOMAIN rooms
    /\ last.sender \in DOMAIN rooms[last.roomCode].participants
    /\ last.sender # rooms[last.roomCode].hostId
    /\ \E t \in connected \ {last.sender} : last.roomCode \in joined[t]
    /\ out = {<<"error", last.sender>>}

\* ------------------------------------------------------------------ C17
\* C17: every inbound event changes at most one room (its playlist, settings,
\* participants or existence); every other live room keeps its playlist,
\* settings, participants and hostId.
C17_AtMostOneRoomChanges ==
    [][Cardinality({c \in Codes :
            \/ (c \in DOMAIN rooms) # (c \in DOMAIN rooms')
            \/ (c \in DOMAIN rooms /\ c \in DOMAIN rooms' /\ rooms[c] # rooms'[c])})
         <= 1]_vars

\* two rooms with different hosts are live; the host of one has just switched
\* it to sync mode and the other room still has its initial settings
C17_Witness ==
    /\ last.op = "update-room-settings"
    /\ Accepted(out, last.sender)
    /\ last.roomCode \in DOMAIN rooms
    /\ rooms[last.roomCode].hostId = last.sender
    /\ rooms[last.roomCode].settings.playbackMode = "sync"
    /\ \E d \in DOMAIN rooms \ {last.roomCode} :
          /\ rooms[d].hostId # last.sender
          /\ rooms[d].settings.playbackMode = "individual"

\* ------------------------------------------------------------------ C18
\* C18: room-closed is terminal for its recipients: a connection that has been
\* sent room-closed for room R is sent no further room-scoped event unless it
\* first issues a new successful create-room or join-room, also after R's code
\* has been issued to a new room.
\* A connection whose session names a code whose io room it is in, while no
\* live room at that code has it as a participant, was sent room-closed when
\* the room it last entered was destroyed, and has entered no room since.
C18_RoomClosedIsTerminal ==
    [][\A s \in connected :
          (/\ s \in DOMAIN userSockets
           /\ userSockets[s].roomCode \in joined[s]
           /\ \/ userSockets[s].roomCode \notin DOMAIN rooms
              \/ s \notin DOMAIN rooms[userSockets[s].roomCode].participants
           /\ ~(last'.sender = s /\ last'.op \in {"create-room", "join-room"}))
          => \A ev \in {"participant-joined", "participant-left",
                        "room-settings-updated", "room-playlist-updated",
                        "sync-playback-command", "chat-message", "room-closed"} :
                <<ev, s>> \notin out']_vars

\* ------------------------------------------------------------------ C19
\* C19: no ghost participants: every key of a live room's participants map is
\* a connection that is still connected and whose userSockets entry names
\* that room; a disconnected connection is a participant of no live room.
C19_NoGhostParticipants ==
    \A c \in DOMAIN rooms :
       \A p \in DOMAIN rooms[c].participants :
          /\ p \in connected
          /\ p \in DOMAIN userSockets
          /\ userSockets[p].roomCode = c

\* ------------------------------------------------------------------ C20
\* C20: no room outlives all connections: when every connection that ever
\* issued create-room or join-room has been disconnected (in particular when
\* no connection is open at all), rooms and roomCodes are both empty.
C20_NoRoomOutlivesConnections ==
    connected = {} => (rooms = << >> /\ roomCodes = {})
====
